---- MODULE Spec2Model ----
(***************************************************************************)
(* Model of olianalytics/skills_models.py: the SkillsMap (skill/objective  *)
(* graph) and ResourcesMap (resource/skill graph) classes, their from_xml  *)
(* factories, their lookups, and a caller that uses the returned objects.  *)
(*                                                                         *)
(* A document is a well-formed element tree (cElementTree.XML succeeded);  *)
(* its elements are drawn one at a time, in document order, as the         *)
(* findall loops of from_xml reach them.  Python dicts are functions       *)
(* (DOMAIN = the keys), Python lists are sequences, Python sets are sets.  *)
(* Objects that Python compares by identity carry a ref field (the order   *)
(* of their creation in from_xml; 0 for an object the caller created).     *)
(* assert statements are executed (the tests expect AssertionError).       *)
(* The caller parses one skills document, then one resources document,     *)
(* and looks up in, or writes through, what the two calls returned.        *)
(*                                                                         *)
(* BKTEstimator (the same file) is modelled with its caller, who keeps the *)
(* estimate and feeds each posterior back as the next prior.  A Python     *)
(* float is an IEEE-754 binary64 number and every operation of             *)
(* get_posterior rounds to nearest, ties to even: the model computes the   *)
(* same significands digit by digit, so that equality with 1.0, 0.1 or     *)
(* 0.14 means what it means in the code.  Parameters and priors lie in     *)
(* [0, 1], so no value of the model is negative, infinite or subnormal.    *)
(* The estimator shares no state with the two graphs and has its own       *)
(* specifications, SpecBKT and SpecBKTRuns.                                *)
(*                                                                         *)
(* AnalyticsEventRestHandler.post (learning_analytics.py) is modelled one  *)
(* statement group at a time (SpecRest).  It runs inside Course Builder:   *)
(* the XSRF check, CAN_PERSIST_TAG_EVENTS, the session user, EventEntity   *)
(* and the JSON responses behave as the handler's calls and its tests      *)
(* expect; the stored skills map parses or raises as from_xml does.        *)
(* AnalyticsSchoolbusHandler.new_student_info                              *)
(* (learning_analytics_schoolbus.py) is one atomic call per delivered bus  *)
(* message (SpecBus); a message's content is a str, and publish succeeds.  *)
(***************************************************************************)
EXTENDS Integers, Sequences, FiniteSets, TLC

(* ---- bounds of the model ---- *)
MaxSkills == 2
MaxObjectives == 2
MaxRefs == 2
MaxResources == 1
MaxCallerWrites == 1
MaxObservations == 2
MaxRequests == 2
MaxMessages == 3

(* ---- ids that documents and lookups draw from ---- *)
SkillIds == {"s1", "s2"}
ObjectiveIds == {"o1", "o2"}
ResourceIds == {"r1", "r2"}
BadKey == "bad_key"

\* The tests' loops feed 99 observations: for n in xrange(1, 100).
RunLength == 99

(* Python's None; a record so that it compares with every object. *)
None == [type |-> "NoneType"]

(* ---- Python dict operations used by the code ---- *)
EmptyDict == [k \in {} |-> None]

\* d[k] = v
DictSet(d, k, v) == [x \in (DOMAIN d) \cup {k} |-> IF x = k THEN v ELSE d[x]]

\* d.get(k, default): never raises
DictGet(d, k, default) == IF k \in DOMAIN d THEN d[k] ELSE default

\* d.setdefault(k, set()).add(v)
SetDefaultAdd(d, k, v) == DictSet(d, k, DictGet(d, k, {}) \cup {v})

(* ---- Python float: IEEE-754 binary64, round to nearest, ties to even ---- *)
\* A natural number of any size is the sequence of its digits in base
\* 2^LimbBits, lowest first, without high zeros (0 is <<>>).
LimbBits == 15
Base == 2^LimbBits
MantBits == 53

Limb(a, i) == IF i >= 1 /\ i <= Len(a) THEN a[i] ELSE 0

RECURSIVE BigTrim(_)
BigTrim(a) ==
    IF a # <<>> /\ a[Len(a)] = 0 THEN BigTrim(SubSeq(a, 1, Len(a) - 1)) ELSE a

RECURSIVE BigAddFrom(_, _, _, _)
BigAddFrom(a, b, i, carry) ==
    IF i > Len(a) /\ i > Len(b)
      THEN IF carry = 0 THEN <<>> ELSE <<carry>>
      ELSE LET s == Limb(a, i) + Limb(b, i) + carry
           IN <<s % Base>> \o BigAddFrom(a, b, i + 1, s \div Base)

BigAdd(a, b) == BigAddFrom(a, b, 1, 0)

RECURSIVE BigSubFrom(_, _, _, _)
BigSubFrom(a, b, i, borrow) ==
    IF i > Len(a)
      THEN <<>>
      ELSE LET d == a[i] - Limb(b, i) - borrow
           IN <<IF d < 0 THEN d + Base ELSE d>>
                \o BigSubFrom(a, b, i + 1, IF d < 0 THEN 1 ELSE 0)

\* a - b for a >= b
BigSub(a, b) == BigTrim(BigSubFrom(a, b, 1, 0))

RECURSIVE BigCmpAt(_, _, _)
BigCmpAt(a, b, i) ==
    IF i = 0 THEN 0
    ELSE IF a[i] # b[i] THEN (IF a[i] < b[i] THEN -1 ELSE 1)
    ELSE BigCmpAt(a, b, i - 1)

\* -1, 0, 1 as a < b, a = b, a > b
BigCmp(a, b) ==
    IF Len(a) # Len(b) THEN (IF Len(a) < Len(b) THEN -1 ELSE 1)
    ELSE BigCmpAt(a, b, Len(a))

RECURSIVE BigMulSmallFrom(_, _, _, _)
BigMulSmallFrom(a, k, i, carry) ==
    IF i > Len(a)
      THEN IF carry = 0 THEN <<>> ELSE <<carry>>
      ELSE LET t == a[i] * k + carry
           IN <<t % Base>> \o BigMulSmallFrom(a, k, i + 1, t \div Base)

\* a * k for a digit k
BigMulSmall(a, k) == IF k = 0 THEN <<>> ELSE BigMulSmallFrom(a, k, 1, 0)

BigShiftLimbs(a, n) == IF a = <<>> THEN <<>> ELSE [i \in 1..n |-> 0] \o a

RECURSIVE BigMulFrom(_, _, _)
BigMulFrom(a, b, j) ==
    IF j > Len(b) THEN <<>>
    ELSE BigAdd(BigShiftLimbs(BigMulSmall(a, b[j]), j - 1), BigMulFrom(a, b, j + 1))

BigMul(a, b) == BigMulFrom(a, b, 1)

\* a * 2^r and floor(a / 2^r) for 0 <= r < LimbBits
ShiftLeftBits(a, r) ==
    BigTrim([i \in 1..Len(a) + 1 |->
               ((Limb(a, i) * 2^r) % Base) + (Limb(a, i - 1) \div 2^(LimbBits - r))])

ShiftRightBits(a, r) ==
    BigTrim([i \in 1..Len(a) |->
               (a[i] \div 2^r) + ((Limb(a, i + 1) % 2^r) * 2^(LimbBits - r))])

\* a * 2^s
ShiftLeft(a, s) == BigShiftLimbs(ShiftLeftBits(a, s % LimbBits), s \div LimbBits)

\* floor(a / 2^s), and whether a bit that is 1 was shifted out
ShiftRightSticky(a, s) ==
    LET n == s \div LimbBits
        r == s % LimbBits
        high == SubSeq(a, n + 1, Len(a))
    IN [q |-> ShiftRightBits(high, r),
        sticky |-> \/ \E i \in 1..n : Limb(a, i) # 0
                   \/ Limb(high, 1) % 2^r # 0]

\* the number of binary digits of a
BitLen(a) ==
    IF a = <<>> THEN 0
    ELSE LimbBits * (Len(a) - 1)
           + (CHOOSE k \in 1..LimbBits : 2^(k - 1) <= a[Len(a)] /\ a[Len(a)] < 2^k)

IsOdd(a) == Limb(a, 1) % 2 = 1

\* The next n <= LimbBits quotient bits of r / b for r < 2b, highest first,
\* added below the bits q; r is what is left, doubled once per bit.
RECURSIVE DivBits(_, _, _, _)
DivBits(r, b, q, n) ==
    IF n = 0 THEN [q |-> q, r |-> r]
    ELSE IF BigCmp(r, b) >= 0
      THEN DivBits(BigMulSmall(BigSub(r, b), 2), b, 2 * q + 1, n - 1)
      ELSE DivBits(BigMulSmall(r, 2), b, 2 * q, n - 1)

\* floor(a * 2^(4 * LimbBits - 1) / b) for a < 2b, one digit at a time, and
\* whether a remainder is left
BigDivide(a, b) ==
    LET d4 == DivBits(a, b, 0, LimbBits)
        d3 == DivBits(d4.r, b, 0, LimbBits)
        d2 == DivBits(d3.r, b, 0, LimbBits)
        d1 == DivBits(d2.r, b, 0, LimbBits)
    IN [q |-> BigTrim(<<d1.q, d2.q, d3.q, d4.q>>), sticky |-> d1.r # <<>>]

\* A float is 0.0 or m * 2^e with 2^52 <= m < 2^53; no float of the model is
\* negative, infinite, NaN or subnormal.
FloatZero == [m |-> <<>>, e |-> 0]

\* The float nearest to (n + a fraction) * 2^e, where the fraction is 0
\* without sticky and strictly between 0 and 1 with it; ties go to even.
RoundToFloat(n, e, sticky) ==
    IF n = <<>> THEN FloatZero
    ELSE LET len == BitLen(n)
         IN IF len <= MantBits
              THEN [m |-> ShiftLeft(n, MantBits - len), e |-> e - (MantBits - len)]
              ELSE LET s == len - MantBits
                       sh == ShiftRightSticky(n, s - 1)
                       q == ShiftRightBits(sh.q, 1)
                       up == IsOdd(sh.q) /\ (sh.sticky \/ sticky \/ IsOdd(q))
                       q1 == IF up THEN BigAdd(q, <<1>>) ELSE q
                   IN IF BitLen(q1) > MantBits
                        THEN [m |-> ShiftRightBits(q1, 1), e |-> e + s + 1]
                        ELSE [m |-> q1, e |-> e + s]

\* float(n) for a small int n
FloatOfInt(n) == RoundToFloat(BigTrim(<<n>>), 0, FALSE)

MinInt(x, y) == IF x < y THEN x ELSE y

\* a + b
FloatAdd(a, b) ==
    IF a = FloatZero THEN b
    ELSE IF b = FloatZero THEN a
    ELSE LET e == MinInt(a.e, b.e)
         IN RoundToFloat(BigAdd(ShiftLeft(a.m, a.e - e), ShiftLeft(b.m, b.e - e)), e, FALSE)

\* a - b for a >= b
FloatSub(a, b) ==
    IF b = FloatZero THEN a
    ELSE LET e == MinInt(a.e, b.e)
         IN RoundToFloat(BigSub(ShiftLeft(a.m, a.e - e), ShiftLeft(b.m, b.e - e)), e, FALSE)

\* a * b
FloatMul(a, b) ==
    IF a = FloatZero \/ b = FloatZero THEN FloatZero
    ELSE RoundToFloat(BigMul(a.m, b.m), a.e + b.e, FALSE)

\* a / b for b # 0.0
FloatDiv(a, b) ==
    IF a = FloatZero THEN FloatZero
    ELSE LET d == BigDivide(a.m, b.m)
         IN RoundToFloat(d.q, a.e - b.e - (4 * LimbBits - 1), d.sticky)

\* a < b
FloatLess(a, b) ==
    IF b = FloatZero THEN FALSE
    ELSE IF a = FloatZero THEN TRUE
    ELSE IF a.e # b.e THEN a.e < b.e
    ELSE BigCmp(a.m, b.m) < 0

FloatLeq(a, b) == a = b \/ FloatLess(a, b)

\* The float a decimal literal num/den denotes (0.1 is Decimal(1, 10)): the
\* nearest to the quotient, which is what dividing the two ints yields.
Decimal(num, den) == FloatDiv(FloatOfInt(num), FloatOfInt(den))

FloatOne == FloatOfInt(1)

(* ---- the classes ---- *)
Skill(id_str, description, ref) ==
    [type |-> "Skill", id |-> id_str, description |-> description, ref |-> ref]

Objective(id_str, description, ref) ==
    [type |-> "Objective", id |-> id_str, description |-> description, ref |-> ref]

\* SkillsMap.__init__
NewSkillsMap ==
    [type |-> "SkillsMap",
     objectives |-> <<>>, objectives_by_id |-> EmptyDict,
     skills |-> <<>>, skills_by_id |-> EmptyDict,
     skills_to_objectives_map |-> EmptyDict,
     objectives_to_skills_map |-> EmptyDict]

\* ResourcesMap.__init__; skills_map is None or a reference to the caller's
\* SkillsMap object (the object itself stays in the variable skills_map).
NewResourcesMap(id_str, skills_map_ref) ==
    [type |-> "ResourcesMap", id |-> id_str, skills_map |-> skills_map_ref,
     skills_to_resources_map |-> EmptyDict,
     resources_to_skills_map |-> EmptyDict,
     resource_ids |-> <<>>]

SkillsMapRef == [type |-> "ref", to |-> "skills_map"]

VARIABLES
    skills_pc,      \* position in SkillsMap.from_xml
    sm_frame,       \* from_xml's local skills_map (None outside the call)
    cur_obj,        \* the objective element the inner loop is in
    skills_map,     \* the caller's SkillsMap object (None until returned)
    skills_exc,     \* the exception SkillsMap.from_xml raised, or None
    res_pc,         \* position in ResourcesMap.from_xml
    rm_frame,       \* from_xml's local resources_map (None outside the call)
    cur_res,        \* the resource element the inner loop is in
    resources_map,  \* the caller's ResourcesMap object (None until returned)
    res_exc,        \* the exception ResourcesMap.from_xml raised, or NoExc
    ret,            \* the outcome of the caller's latest lookup
    caller_writes,  \* how many times the caller wrote through a returned value
    doc,            \* what the documents read so far held (history)
    estimator,      \* the caller's BKTEstimator object (None until constructed)
    mastery,        \* the caller's stored estimate, the next prior (None at first)
    start_prior,    \* the prior the caller started from (history)
    n_obs,          \* how many observations the caller has fed
    n_correct,      \* how many of them were correct
    bkt_ret,        \* the latest get_posterior call and its outcome
    rest_pc,        \* position in AnalyticsEventRestHandler.post
    request,        \* the request post is handling (None outside a call)
    can_persist,    \* utils.CAN_PERSIST_TAG_EVENTS.value
    session_user,   \* what get_user() returns: the user in session or None
    stored_map,     \* the skills map the datastore holds, by what parsing it does
    events,         \* the EventEntity rows of the datastore, oldest first
    student_puts,   \* how many times the student's property entity was put
    response,       \* the JSON response sent for the request (None before)
    rest_exc,       \* the exception that left post, or NoExc
    n_requests,     \* how many requests were posted
    rest_before,    \* events and student_puts when the request came in (history)
    published,      \* the messages the bus adapter was given to publish
    n_delivered,    \* how many messages the bus delivered to new_student_info
    n_parseable,    \* how many of them held parseable JSON (history)
    bus_ret         \* the latest delivery and the outcome of the callback

skills_vars == <<skills_pc, sm_frame, cur_obj, skills_map, skills_exc>>
res_vars == <<res_pc, rm_frame, cur_res, resources_map, res_exc>>
call_vars == <<ret, caller_writes>>
bkt_vars == <<estimator, mastery, start_prior, n_obs, n_correct, bkt_ret>>
rest_vars == <<rest_pc, request, can_persist, session_user, stored_map, events,
               student_puts, response, rest_exc, n_requests, rest_before>>
bus_vars == <<published, n_delivered, n_parseable, bus_ret>>
handler_vars == <<rest_vars, bus_vars>>
graph_vars == <<skills_vars, res_vars, call_vars, doc>>
vars == <<skills_vars, res_vars, call_vars, doc, bkt_vars, handler_vars>>

NoElt == [id |-> "", nrefs |-> 0]
NoExc == "none"

\* The outcome of a call: a returned value or a raised exception.
Return(v) == [exc |-> NoExc, val |-> v]
Raise(e) == [exc |-> e]
NoCall == [op |-> "none", arg |-> "", res |-> Return(None)]
NoObservation == [prior |-> None, is_correct |-> FALSE, res |-> Return(None)]
NoDelivery == [content |-> "", res |-> Return(None), delivered |-> FALSE]

(* ---- BKTEstimator ---- *)

\* lines 48-51: __init__
BKTEstimator(p_learning, p_guess, p_slip) ==
    [type |-> "BKTEstimator",
     p_learning |-> p_learning, p_guess |-> p_guess, p_slip |-> p_slip]

\* Variant: guess and slip of the standard estimator change places.
get_standard_estimator_GuessSlipSwapped ==
    BKTEstimator(Decimal(1, 10), Decimal(2, 10), Decimal(3, 10))

\* lines 44-46
get_standard_estimator ==
    BKTEstimator(Decimal(1, 10), Decimal(3, 10), Decimal(2, 10))

\* Variant: the chance of a guess is left out of the denominator.
CorrectEvidence_NoGuessTerm(self, prior) ==
    LET p_not_slip == FloatSub(FloatOne, self.p_slip)
    IN [num |-> FloatMul(prior, p_not_slip), den |-> FloatMul(prior, p_not_slip)]

\* Variant: slip stands where 1 - slip belongs.
CorrectEvidence_SlipForNotSlip(self, prior) ==
    LET not_prior == FloatSub(FloatOne, prior)
    IN [num |-> FloatMul(prior, self.p_slip),
        den |-> FloatAdd(FloatMul(prior, self.p_slip),
                         FloatMul(not_prior, self.p_guess))]

\* Variant: the chance of a guess is counted although guess is the chance
\* of a right answer without knowledge: 1 - guess stands for guess.
CorrectEvidence_NotGuess(self, prior) ==
    LET not_prior == FloatSub(FloatOne, prior)
        p_not_slip == FloatSub(FloatOne, self.p_slip)
    IN [num |-> FloatMul(prior, p_not_slip),
        den |-> FloatAdd(FloatMul(prior, p_not_slip),
                         FloatMul(not_prior, FloatSub(FloatOne, self.p_guess)))]

\* lines 65, 68-72: numerator and denominator of p after a correct answer
CorrectEvidence(self, prior) ==
    LET not_prior == FloatSub(FloatOne, prior)
        p_not_slip == FloatSub(FloatOne, self.p_slip)
    IN [num |-> FloatMul(prior, p_not_slip),
        den |-> FloatAdd(FloatMul(prior, p_not_slip),
                         FloatMul(not_prior, self.p_guess))]

\* Variant: 1 - slip stands where slip belongs.
IncorrectEvidence_NotSlip(self, prior) ==
    LET not_prior == FloatSub(FloatOne, prior)
        p_not_slip == FloatSub(FloatOne, self.p_slip)
    IN [num |-> FloatMul(prior, p_not_slip),
        den |-> FloatAdd(FloatMul(prior, p_not_slip),
                         FloatMul(not_prior, FloatSub(FloatOne, self.p_guess)))]

\* lines 65, 73-75: numerator and denominator of p after an incorrect answer
IncorrectEvidence(self, prior) ==
    LET not_prior == FloatSub(FloatOne, prior)
    IN [num |-> FloatMul(prior, self.p_slip),
        den |-> FloatAdd(FloatMul(prior, self.p_slip),
                         FloatMul(not_prior, FloatSub(FloatOne, self.p_guess)))]

\* Variant: the chance of learning is left out.
Transit_NoLearning(self, p) == p

\* Variant: the sum is lost, p is scaled by the chance of learning.
Transit_ScaledByLearning(self, p) == FloatMul(p, self.p_learning)

\* line 77: p + (1 - p) * self._p_learning
Transit(self, p) ==
    FloatAdd(p, FloatMul(FloatSub(FloatOne, p), self.p_learning))

\* lines 53-77: a float division by 0.0 raises ZeroDivisionError
get_posterior(self, prior, is_correct) ==
    LET ratio == IF is_correct THEN CorrectEvidence(self, prior)
                 ELSE IncorrectEvidence(self, prior)
    IN IF ratio.den = FloatZero
         THEN Raise("ZeroDivisionError")
         ELSE Return(Transit(self, FloatDiv(ratio.num, ratio.den)))

Init ==
    /\ skills_pc = "idle"
    /\ sm_frame = None
    /\ cur_obj = NoElt
    /\ skills_map = None
    /\ skills_exc = NoExc
    /\ res_pc = "idle"
    /\ rm_frame = None
    /\ cur_res = NoElt
    /\ resources_map = None
    /\ res_exc = NoExc
    /\ ret = NoCall
    /\ caller_writes = 0
    /\ doc = [skills |-> <<>>, objectives |-> <<>>, resources |-> <<>>,
              objective_refs |-> {}, resource_refs |-> {},
              undeclared_ref |-> FALSE, no_description |-> FALSE,
              with_skills_map |-> FALSE, absent_ref |-> FALSE]
    /\ estimator = None
    /\ mastery = None
    /\ start_prior = None
    /\ n_obs = 0
    /\ n_correct = 0
    /\ bkt_ret = NoObservation
    /\ rest_pc = "idle"
    /\ request = None
    /\ can_persist = TRUE
    /\ session_user = None
    /\ stored_map = "absent"
    /\ events = <<>>
    /\ student_puts = 0
    /\ response = None
    /\ rest_exc = NoExc
    /\ n_requests = 0
    /\ rest_before = [events |-> 0, student_puts |-> 0]
    /\ published = <<>>
    /\ n_delivered = 0
    /\ n_parseable = 0
    /\ bus_ret = NoDelivery

\* Variant: from_xml catches the exception and hands back what it has built.
OnRaise_LeakFrame(caller_binding, frame) == frame

\* An exception leaves from_xml: the frame and its local graph are gone and
\* the caller's name is bound to what it was bound to before the call.
OnRaise(caller_binding, frame) == caller_binding

(* ---- SkillsMap.from_xml ---- *)

\* lines 93-94: skills_map = SkillsMap(); root = cElementTree.XML(xml_str)
SkillsFromXmlCall ==
    /\ skills_pc = "idle"
    /\ skills_pc' = "skills"
    /\ sm_frame' = NewSkillsMap
    /\ UNCHANGED <<cur_obj, skills_map, skills_exc, doc, res_vars, call_vars, bkt_vars, handler_vars>>

\* Variant: the new skill goes to the front of the list.
AddSkill_Prepend(m, id_str) ==
    LET skill == Skill(id_str, "text", Len(m.skills) + 1)
    IN [m EXCEPT !.skills = <<skill>> \o @,
                 !.skills_by_id = DictSet(@, skill.id, skill)]

\* lines 96-101: one <skill id=...> of the skills section
AddSkill(m, id_str) ==
    LET skill == Skill(id_str, "text", Len(m.skills) + 1)
    IN [m EXCEPT !.skills = Append(@, skill),
                 !.skills_by_id = DictSet(@, skill.id, skill)]

ParseSkill(id_str) ==
    /\ skills_pc = "skills"
    /\ Len(sm_frame.skills) < MaxSkills
    /\ sm_frame' = AddSkill(sm_frame, id_str)
    /\ doc' = [doc EXCEPT !.skills = Append(@, id_str)]
    /\ UNCHANGED <<skills_pc, cur_obj, skills_map, skills_exc, res_vars, call_vars, bkt_vars, handler_vars>>

\* line 96: the skills loop is exhausted
EndSkills ==
    /\ skills_pc = "skills"
    /\ skills_pc' = "objectives"
    /\ UNCHANGED <<sm_frame, cur_obj, skills_map, skills_exc, doc, res_vars, call_vars, bkt_vars, handler_vars>>

\* lines 103-110: one <objective id=...>; has_description says whether it
\* holds a <description> sub-element.  find() returns None without one and
\* None.text raises AttributeError.
AddObjective(m, id_str) ==
    LET objective == Objective(id_str, "text", Len(m.objectives) + 1)
    IN [m EXCEPT !.objectives = Append(@, objective),
                 !.objectives_by_id = DictSet(@, objective.id, objective)]

ParseObjective(id_str, has_description) ==
    /\ skills_pc = "objectives"
    /\ Len(sm_frame.objectives) < MaxObjectives
    /\ IF has_description
         THEN /\ sm_frame' = AddObjective(sm_frame, id_str)
              /\ skills_pc' = "refs"
              /\ cur_obj' = [id |-> id_str, nrefs |-> 0]
              /\ doc' = [doc EXCEPT !.objectives = Append(@, id_str)]
              /\ UNCHANGED <<skills_exc, skills_map>>
         ELSE /\ sm_frame' = None
              /\ skills_map' = OnRaise(skills_map, sm_frame)
              /\ skills_pc' = "raised"
              /\ skills_exc' = "AttributeError"
              /\ cur_obj' = NoElt
              /\ doc' = [doc EXCEPT !.objectives = Append(@, id_str),
                                    !.no_description = TRUE]
    /\ UNCHANGED <<res_vars, call_vars, bkt_vars, handler_vars>>

\* line 114: assert skill_id in skills_map._skills_by_id
SkillIsDeclared(m, skill_id) == skill_id \in DOMAIN m.skills_by_id

\* Variant: the second setdefault(...).add(...) is missing.
AddObjectiveSkill_OneWay(m, objective_id, skill_id) ==
    [m EXCEPT !.skills_to_objectives_map = SetDefaultAdd(@, skill_id, objective_id)]

\* lines 116-119: the two setdefault(...).add(...) calls
AddObjectiveSkill(m, objective_id, skill_id) ==
    [m EXCEPT !.skills_to_objectives_map = SetDefaultAdd(@, skill_id, objective_id),
              !.objectives_to_skills_map = SetDefaultAdd(@, objective_id, skill_id)]

\* lines 112-119: one <skill idref=...> of the current objective
ParseObjectiveSkill(skill_id) ==
    /\ skills_pc = "refs"
    /\ cur_obj.nrefs < MaxRefs
    /\ doc' = [doc EXCEPT !.objective_refs = @ \cup {<<cur_obj.id, skill_id>>},
                          !.undeclared_ref =
                             @ \/ ~(\E i \in 1..Len(doc.skills) : doc.skills[i] = skill_id)]
    /\ IF SkillIsDeclared(sm_frame, skill_id)
         THEN /\ sm_frame' = AddObjectiveSkill(sm_frame, cur_obj.id, skill_id)
              /\ cur_obj' = [cur_obj EXCEPT !.nrefs = @ + 1]
              /\ UNCHANGED <<skills_pc, skills_exc, skills_map>>
         ELSE /\ sm_frame' = None
              /\ skills_map' = OnRaise(skills_map, sm_frame)
              /\ skills_pc' = "raised"
              /\ skills_exc' = "AssertionError"
              /\ cur_obj' = NoElt
    /\ UNCHANGED <<res_vars, call_vars, bkt_vars, handler_vars>>

\* line 112: the inner loop is exhausted
EndObjective ==
    /\ skills_pc = "refs"
    /\ skills_pc' = "objectives"
    /\ cur_obj' = NoElt
    /\ UNCHANGED <<sm_frame, skills_map, skills_exc, doc, res_vars, call_vars, bkt_vars, handler_vars>>

\* line 121: return skills_map (the objectives loop is exhausted)
FromXmlResult(frame) == frame

SkillsFromXmlReturn ==
    /\ skills_pc = "objectives"
    /\ skills_pc' = "built"
    /\ skills_map' = FromXmlResult(sm_frame)
    /\ sm_frame' = None
    /\ UNCHANGED <<cur_obj, skills_exc, doc, res_vars, call_vars, bkt_vars, handler_vars>>

(* ---- SkillsMap lookups ---- *)

\* line 139: return self._objectives_by_id.get(id_str)
get_objective_by_id(m, id_str) == Return(DictGet(m.objectives_by_id, id_str, None))

\* line 146: return self._skills_by_id.get(id_str)
get_skill_by_id(m, id_str) == Return(DictGet(m.skills_by_id, id_str, None))

\* Variant: self._objectives_to_skills_map[objective_id], which raises KeyError.
get_skills_for_objective_Subscript(m, objective_id) ==
    IF objective_id \in DOMAIN m.objectives_to_skills_map
      THEN Return(m.objectives_to_skills_map[objective_id])
      ELSE Raise("KeyError")

\* line 158: frozenset(self._objectives_to_skills_map.get(objective_id, []))
get_skills_for_objective(m, objective_id) ==
    Return(DictGet(m.objectives_to_skills_map, objective_id, {}))

\* line 170: frozenset(self._skills_to_objectives_map.get(skill_id, []))
get_objectives_for_skill(m, skill_id) ==
    Return(DictGet(m.skills_to_objectives_map, skill_id, {}))

(* ---- ResourcesMap.from_xml ---- *)

\* lines 189-192: the caller passes its SkillsMap (by reference) or nothing.
\* The caller parses the resources document after the skills document.
ResFromXmlCall(with_skills_map) ==
    /\ res_pc = "idle"
    /\ skills_pc = "built"
    /\ ret = NoCall
    /\ res_pc' = "resources"
    /\ rm_frame' = NewResourcesMap("resources_id",
                       IF with_skills_map THEN SkillsMapRef ELSE None)
    /\ doc' = [doc EXCEPT !.with_skills_map = with_skills_map]
    /\ UNCHANGED <<cur_res, resources_map, res_exc, skills_vars, call_vars, bkt_vars, handler_vars>>

\* lines 195-196: one <resource id=...>
AddResource(m, resource_id) ==
    [m EXCEPT !.resource_ids = Append(@, resource_id)]

ParseResource(resource_id) ==
    /\ res_pc = "resources"
    /\ Len(rm_frame.resource_ids) < MaxResources
    /\ rm_frame' = AddResource(rm_frame, resource_id)
    /\ cur_res' = [id |-> resource_id, nrefs |-> 0]
    /\ res_pc' = "refs"
    /\ doc' = [doc EXCEPT !.resources = Append(@, resource_id)]
    /\ UNCHANGED <<resources_map, res_exc, skills_vars, call_vars, bkt_vars, handler_vars>>

\* Variant: the assert is missing.
SkillRefAccepted_NoCheck(m, sm, skill_id) == TRUE

\* lines 199-200: assert (skills_map is None) or
\*                       (skills_map.get_skill_by_id(skill_id) is not None)
SkillRefAccepted(m, sm, skill_id) ==
    (m.skills_map = None) \/ (get_skill_by_id(sm, skill_id).val # None)

\* Variant: the second setdefault(...).add(...) is missing.
AddResourceSkill_OneWay(m, resource_id, skill_id) ==
    [m EXCEPT !.skills_to_resources_map = SetDefaultAdd(@, skill_id, resource_id)]

\* lines 201-204: the two setdefault(...).add(...) calls
AddResourceSkill(m, resource_id, skill_id) ==
    [m EXCEPT !.skills_to_resources_map = SetDefaultAdd(@, skill_id, resource_id),
              !.resources_to_skills_map = SetDefaultAdd(@, resource_id, skill_id)]

\* lines 197-204: one <skill idref=...> of the current resource
ParseResourceSkill(skill_id) ==
    /\ res_pc = "refs"
    /\ cur_res.nrefs < MaxRefs
    /\ doc' = [doc EXCEPT !.resource_refs = @ \cup {<<cur_res.id, skill_id>>},
                          !.absent_ref =
                             @ \/ (get_skill_by_id(skills_map, skill_id).val = None)]
    /\ IF SkillRefAccepted(rm_frame, skills_map, skill_id)
         THEN /\ rm_frame' = AddResourceSkill(rm_frame, cur_res.id, skill_id)
              /\ cur_res' = [cur_res EXCEPT !.nrefs = @ + 1]
              /\ UNCHANGED <<res_pc, res_exc, resources_map>>
         ELSE /\ rm_frame' = None
              /\ resources_map' = OnRaise(resources_map, rm_frame)
              /\ res_pc' = "raised"
              /\ res_exc' = "AssertionError"
              /\ cur_res' = NoElt
    /\ UNCHANGED <<skills_vars, call_vars, bkt_vars, handler_vars>>

\* line 197: the inner loop is exhausted
EndResource ==
    /\ res_pc = "refs"
    /\ res_pc' = "resources"
    /\ cur_res' = NoElt
    /\ UNCHANGED <<rm_frame, resources_map, res_exc, doc, skills_vars, call_vars, bkt_vars, handler_vars>>

\* line 206: return resources_map (the resources loop is exhausted)
ResFromXmlReturn ==
    /\ res_pc = "resources"
    /\ res_pc' = "built"
    /\ resources_map' = FromXmlResult(rm_frame)
    /\ rm_frame' = None
    /\ UNCHANGED <<cur_res, res_exc, doc, skills_vars, call_vars, bkt_vars, handler_vars>>

(* ---- ResourcesMap lookups ---- *)

\* line 236: frozenset(self._resources_to_skills_map.get(resource_id, []))
get_skills_for_resource(m, resource_id) ==
    Return(DictGet(m.resources_to_skills_map, resource_id, {}))

\* line 265: frozenset(self._skills_to_resources_map.get(skill_id, []))
get_resources_for_skill(m, skill_id) ==
    Return(DictGet(m.skills_to_resources_map, skill_id, {}))

\* Variant: SkillsMap defines __len__ as len(self._skills), so an empty one is false.
Truthy_Len(ref, sm) == ref # None /\ Len(sm.skills) > 0

\* line 248: assert self._skills_map.  SkillsMap defines neither __len__ nor
\* __nonzero__, so every SkillsMap object is true and only None is false.
Truthy(ref, sm) == ref # None

\* Variant: the return sits inside the loop, after the first update.
UpdateFromSkills_FirstOnly(sm, todo, objectives) ==
    IF todo = {} THEN objectives
    ELSE objectives \cup
           DictGet(sm.skills_to_objectives_map, CHOOSE x \in todo : TRUE, {})

\* lines 249-252: objectives = set(); for skill_id in ...: objectives.update(...)
RECURSIVE UpdateFromSkills(_, _, _)
UpdateFromSkills(sm, todo, objectives) ==
    IF todo = {} THEN objectives
    ELSE LET skill_id == CHOOSE x \in todo : TRUE
         IN UpdateFromSkills(sm, todo \ {skill_id},
                objectives \cup get_objectives_for_skill(sm, skill_id).val)

\* lines 248-253; sm is the object m._skills_map refers to
get_objectives_for_resource(m, sm, resource_id) ==
    IF ~Truthy(m.skills_map, sm) THEN Raise("AssertionError")
    ELSE Return(UpdateFromSkills(sm, get_skills_for_resource(m, resource_id).val, {}))

(* ---- the caller's lookups ---- *)
\* The caller is sequential: it calls nothing while a from_xml call runs.
CallerRuns == /\ skills_pc \in {"idle", "built", "raised"}
              /\ res_pc \in {"idle", "built", "raised"}

\* The caller holds no lookup outcome: it has used and dropped the last one.
CallerIdle == CallerRuns /\ ret = NoCall

\* The caller is done with the outcome of its latest lookup.
DropResult ==
    /\ ret # NoCall
    /\ ret' = NoCall
    /\ UNCHANGED <<skills_vars, res_vars, caller_writes, doc, bkt_vars, handler_vars>>

LookupArgs(ids) == ids \cup {BadKey}

CallGetSkillById(id_str) ==
    /\ CallerIdle /\ skills_pc = "built"
    /\ ret' = [op |-> "get_skill_by_id", arg |-> id_str,
               res |-> get_skill_by_id(skills_map, id_str)]
    /\ UNCHANGED <<skills_vars, res_vars, caller_writes, doc, bkt_vars, handler_vars>>

CallGetObjectiveById(id_str) ==
    /\ CallerIdle /\ skills_pc = "built"
    /\ ret' = [op |-> "get_objective_by_id", arg |-> id_str,
               res |-> get_objective_by_id(skills_map, id_str)]
    /\ UNCHANGED <<skills_vars, res_vars, caller_writes, doc, bkt_vars, handler_vars>>

CallGetSkillsForObjective(objective_id) ==
    /\ CallerIdle /\ skills_pc = "built"
    /\ ret' = [op |-> "get_skills_for_objective", arg |-> objective_id,
               res |-> get_skills_for_objective(skills_map, objective_id)]
    /\ UNCHANGED <<skills_vars, res_vars, caller_writes, doc, bkt_vars, handler_vars>>

CallGetObjectivesForSkill(skill_id) ==
    /\ CallerIdle /\ skills_pc = "built"
    /\ ret' = [op |-> "get_objectives_for_skill", arg |-> skill_id,
               res |-> get_objectives_for_skill(skills_map, skill_id)]
    /\ UNCHANGED <<skills_vars, res_vars, caller_writes, doc, bkt_vars, handler_vars>>

CallGetSkillsForResource(resource_id) ==
    /\ CallerIdle /\ res_pc = "built"
    /\ ret' = [op |-> "get_skills_for_resource", arg |-> resource_id,
               res |-> get_skills_for_resource(resources_map, resource_id)]
    /\ UNCHANGED <<skills_vars, res_vars, caller_writes, doc, bkt_vars, handler_vars>>

CallGetResourcesForSkill(skill_id) ==
    /\ CallerIdle /\ res_pc = "built"
    /\ ret' = [op |-> "get_resources_for_skill", arg |-> skill_id,
               res |-> get_resources_for_skill(resources_map, skill_id)]
    /\ UNCHANGED <<skills_vars, res_vars, caller_writes, doc, bkt_vars, handler_vars>>

CallGetObjectivesForResource(resource_id) ==
    /\ CallerIdle /\ res_pc = "built"
    /\ ret' = [op |-> "get_objectives_for_resource", arg |-> resource_id,
               res |-> get_objectives_for_resource(resources_map, skills_map,
                                                   resource_id)]
    /\ UNCHANGED <<skills_vars, res_vars, caller_writes, doc, bkt_vars, handler_vars>>

(* ---- the caller's writes through returned values ---- *)
\* lines 134-136, 141-143, 219-221: the accessors return the object's own list
\* (return self._skills), so a list method the caller applies to the returned
\* value acts on the list the object holds.
\* skills_map.skills.append(Skill(...))
SkillsViewAppend ==
    /\ CallerIdle /\ skills_pc = "built"
    /\ caller_writes < MaxCallerWrites
    /\ skills_map' = [skills_map EXCEPT !.skills = Append(@, Skill("s1", "text", 0))]
    /\ caller_writes' = caller_writes + 1
    /\ UNCHANGED <<skills_pc, sm_frame, cur_obj, skills_exc, res_vars, ret, doc, bkt_vars, handler_vars>>

\* skills_map.skills.pop()
SkillsViewPop ==
    /\ CallerIdle /\ skills_pc = "built"
    /\ caller_writes < MaxCallerWrites
    /\ skills_map.skills # <<>>
    /\ skills_map' = [skills_map EXCEPT !.skills = SubSeq(@, 1, Len(@) - 1)]
    /\ caller_writes' = caller_writes + 1
    /\ UNCHANGED <<skills_pc, sm_frame, cur_obj, skills_exc, res_vars, ret, doc, bkt_vars, handler_vars>>

\* skills_map.objectives.append(Objective(...))
ObjectivesViewAppend ==
    /\ CallerIdle /\ skills_pc = "built"
    /\ caller_writes < MaxCallerWrites
    /\ skills_map' = [skills_map EXCEPT
                         !.objectives = Append(@, Objective("o1", "text", 0))]
    /\ caller_writes' = caller_writes + 1
    /\ UNCHANGED <<skills_pc, sm_frame, cur_obj, skills_exc, res_vars, ret, doc, bkt_vars, handler_vars>>

\* skills_map.objectives.pop()
ObjectivesViewPop ==
    /\ CallerIdle /\ skills_pc = "built"
    /\ caller_writes < MaxCallerWrites
    /\ skills_map.objectives # <<>>
    /\ skills_map' = [skills_map EXCEPT !.objectives = SubSeq(@, 1, Len(@) - 1)]
    /\ caller_writes' = caller_writes + 1
    /\ UNCHANGED <<skills_pc, sm_frame, cur_obj, skills_exc, res_vars, ret, doc, bkt_vars, handler_vars>>

\* resources_map.resource_ids.append("r1")
ResourceIdsViewAppend ==
    /\ CallerIdle /\ res_pc = "built"
    /\ caller_writes < MaxCallerWrites
    /\ resources_map' = [resources_map EXCEPT !.resource_ids = Append(@, "r1")]
    /\ caller_writes' = caller_writes + 1
    /\ UNCHANGED <<res_pc, rm_frame, cur_res, res_exc, skills_vars, ret, doc, bkt_vars, handler_vars>>

\* resources_map.resource_ids.pop()
ResourceIdsViewPop ==
    /\ CallerIdle /\ res_pc = "built"
    /\ caller_writes < MaxCallerWrites
    /\ resources_map.resource_ids # <<>>
    /\ resources_map' = [resources_map EXCEPT
                            !.resource_ids = SubSeq(@, 1, Len(@) - 1)]
    /\ caller_writes' = caller_writes + 1
    /\ UNCHANGED <<res_pc, rm_frame, cur_res, res_exc, skills_vars, ret, doc, bkt_vars, handler_vars>>

\* line 249-253: get_objectives_for_resource returns a set of its own making
\* (objectives = set()); the caller's add() changes that set alone.  The
\* other lookups return a frozenset, which has no method that changes it.
ReturnedSetAdd(objective_id) ==
    /\ CallerRuns
    /\ caller_writes < MaxCallerWrites
    /\ ret.op = "get_objectives_for_resource" /\ ret.res.exc = NoExc
    /\ ret' = [ret EXCEPT !.res.val = @ \cup {objective_id}]
    /\ caller_writes' = caller_writes + 1
    /\ UNCHANGED <<skills_vars, res_vars, doc, bkt_vars, handler_vars>>

(* ---- the estimator's caller ---- *)

\* The values the caller draws the three parameters from: the tests' values
\* and the ends of [0, 1].
Probabilities ==
    {FloatZero, Decimal(1, 10), Decimal(2, 10), Decimal(3, 10), FloatOne}

\* The priors the caller starts from: n / 100.0 as in the tests' loops, the
\* ends of [0, 1], and the start of the tests' run of incorrect answers.
PriorPercents == {1, 14, 15, 50, 99}
Priors ==
    {FloatZero, FloatOne, Decimal(9999, 10000)}
        \cup {Decimal(n, 100) : n \in PriorPercents}

\* estimator = BKTEstimator(p_learning=..., p_guess=..., p_slip=...)
NewEstimator(p_learning, p_guess, p_slip) ==
    /\ estimator = None
    /\ estimator' = BKTEstimator(p_learning, p_guess, p_slip)
    /\ UNCHANGED <<mastery, start_prior, n_obs, n_correct, bkt_ret>>
    /\ UNCHANGED <<graph_vars, handler_vars>>

\* estimator = BKTEstimator.get_standard_estimator()
GetStandardEstimator ==
    /\ estimator = None
    /\ estimator' = get_standard_estimator
    /\ UNCHANGED <<mastery, start_prior, n_obs, n_correct, bkt_ret>>
    /\ UNCHANGED <<graph_vars, handler_vars>>

\* p = 0.0, p = 0.9999, prior = n / 100.0
StartFrom(prior) ==
    /\ estimator # None
    /\ mastery = None
    /\ mastery' = prior
    /\ start_prior' = prior
    /\ UNCHANGED <<estimator, n_obs, n_correct, bkt_ret>>
    /\ UNCHANGED <<graph_vars, handler_vars>>

\* p = estimator.get_posterior(p, is_correct): the posterior is the next
\* prior; an exception leaves p as it was.
Feed(is_correct) ==
    LET res == get_posterior(estimator, mastery, is_correct)
    IN /\ bkt_ret' = [prior |-> mastery, is_correct |-> is_correct, res |-> res]
       /\ mastery' = IF res.exc = NoExc THEN res.val ELSE mastery
       /\ n_obs' = n_obs + 1
       /\ n_correct' = n_correct + (IF is_correct THEN 1 ELSE 0)
       /\ UNCHANGED <<estimator, start_prior>>
       /\ UNCHANGED <<graph_vars, handler_vars>>

\* The caller can feed an observation: it has an estimator and a prior, and
\* no call of its has raised.
CanObserve ==
    /\ estimator # None
    /\ mastery # None
    /\ bkt_ret.res.exc = NoExc

\* one observation of any kind
Observe(is_correct) ==
    /\ CanObserve
    /\ n_obs < MaxObservations
    /\ Feed(is_correct)

\* one more observation of a run of equal observations, as in the tests' loops
ObserveAgain(is_correct) ==
    /\ CanObserve
    /\ n_obs < RunLength
    /\ n_obs > 0 => is_correct = bkt_ret.is_correct
    /\ Feed(is_correct)

(* ---- AnalyticsEventRestHandler (learning_analytics.py) ---- *)
\* The handler runs inside Course Builder: utils.BaseRESTHandler, transforms,
\* models.EventEntity and models.StudentPropertyEntity are that framework's,
\* with the behaviour the handler's calls and tests rely on.

\* A Python str, a record like None so that the two compare.
Str(text) == [type |-> "str", text |-> text]

EVENT_SOURCE == Str("learning-analytics-event")
XSRF_TOKEN == Str("learning-analytics-event")

\* The token crypto.XsrfTokenManager.create_xsrf_token(XSRF_TOKEN) makes,
\* and the tests' 'bad_token'.
ValidToken == [type |-> "str", text |-> "token", action |-> XSRF_TOKEN.text]
BadToken == Str("bad_token")

\* The user actions.login('user@foo.bar') puts in session.
User(email) == [type |-> "User", user_id |-> email]

\* The requests a client posts: the 'request' parameter is JSON or not; as
\* JSON it holds an xsrf_token and a payload string, itself JSON or not.
Requests ==
    [body_is_json : BOOLEAN,
     xsrf_token : {ValidToken, BadToken},
     payload : {Str("{}"), Str("not json")}]

\* What the stored skills map does when SkillsMap.from_xml parses it: none
\* stored yet, the empty map load_or_create saves, a map that parses, a map
\* with an undeclared skill reference, a map with an objective that has no
\* description.
StoredMaps == {"absent", "empty", "parses", "undeclared_ref", "no_description"}

\* transforms.send_json_response(handler, status, message)
JsonResponse(status, message) ==
    [type |-> "response", status |-> status, message |-> message]

\* transforms.loads(text): the value, or ValueError for what is not JSON
Loads(text) ==
    IF text = Str("{}") THEN Return([type |-> "dict", keys |-> {}])
    ELSE Raise("ValueError")

\* A client posts; the configuration, the session and the datastore's
\* skills map are what they are at that time.
\* line 67: request = transforms.loads(self.request.get('request'))
Post(req, flag, user, map) ==
    /\ rest_pc \in {"idle", "done", "raised"}
    /\ n_requests < MaxRequests
    /\ n_requests' = n_requests + 1
    /\ request' = req
    /\ can_persist' = flag
    /\ session_user' = user
    /\ stored_map' = IF stored_map = "absent" THEN map ELSE stored_map
    /\ rest_before' = [events |-> Len(events), student_puts |-> student_puts]
    /\ response' = None
    /\ IF req.body_is_json
         THEN rest_pc' = "xsrf" /\ rest_exc' = NoExc
         ELSE rest_pc' = "raised" /\ rest_exc' = "ValueError"
    /\ UNCHANGED <<events, student_puts, bus_vars, graph_vars, bkt_vars>>

\* Variant: the token is not looked at.
XsrfPasses_Always(req) == TRUE

\* line 68: self.assert_xsrf_token_or_fail(request, self.XSRF_TOKEN, {})
XsrfPasses(req) == req.xsrf_token = ValidToken

\* lines 68-69: a bad token is answered by assert_xsrf_token_or_fail itself
CheckXsrf ==
    /\ rest_pc = "xsrf"
    /\ IF XsrfPasses(request)
         THEN rest_pc' = "persist" /\ UNCHANGED response
         ELSE /\ response' = JsonResponse(403, "Bad XSRF token")
              /\ rest_pc' = "done"
    /\ UNCHANGED <<request, can_persist, session_user, stored_map, events,
                   student_puts, rest_exc, n_requests, rest_before>>
    /\ UNCHANGED <<bus_vars, graph_vars, bkt_vars>>

\* lines 71-73
CheckCanPersist ==
    /\ rest_pc = "persist"
    /\ IF can_persist
         THEN rest_pc' = "user" /\ UNCHANGED response
         ELSE /\ response' = JsonResponse(200, "NO-OP")
              /\ rest_pc' = "done"
    /\ UNCHANGED <<request, can_persist, session_user, stored_map, events,
                   student_puts, rest_exc, n_requests, rest_before>>
    /\ UNCHANGED <<bus_vars, graph_vars, bkt_vars>>

\* lines 75-78
CheckUser ==
    /\ rest_pc = "user"
    /\ IF session_user # None
         THEN rest_pc' = "record" /\ UNCHANGED response
         ELSE /\ response' = JsonResponse(403, "User not found")
              /\ rest_pc' = "done"
    /\ UNCHANGED <<request, can_persist, session_user, stored_map, events,
                   student_puts, rest_exc, n_requests, rest_before>>
    /\ UNCHANGED <<bus_vars, graph_vars, bkt_vars>>

\* models.EventEntity.record(source, user, data): one new row
EventEntity(source, user, data) ==
    [type |-> "EventEntity", source |-> source.text,
     user_id |-> user.user_id, data |-> data]

\* lines 80-81
RecordEvent ==
    /\ rest_pc = "record"
    /\ events' = Append(events,
                        EventEntity(EVENT_SOURCE, session_user, request.payload))
    /\ rest_pc' = "update"
    /\ UNCHANGED <<request, can_persist, session_user, stored_map, student_puts,
                   response, rest_exc, n_requests, rest_before>>
    /\ UNCHANGED <<bus_vars, graph_vars, bkt_vars>>

\* learning_analytics.py lines 47-49: SkillsMapDAO.load_or_create saves the empty map when none is
\* stored; SkillsMap.from_xml returns or raises as it does for the document.
FromXmlOutcome(map) ==
    IF map = "undeclared_ref" THEN Raise("AssertionError")
    ELSE IF map = "no_description" THEN Raise("AttributeError")
    ELSE Return(None)

\* lines 43-55, AnalyticsUpdater.update_student: the property entity is put
\* once when it is created (a student's first event) and once at the end,
\* which an exception of from_xml does not reach.
update_student(puts, map) ==
    LET created == IF puts = 0 THEN 1 ELSE 0
        parsed == FromXmlOutcome(map)
    IN IF parsed.exc = NoExc
         THEN [student_puts |-> puts + created + 1, res |-> Return(None)]
         ELSE [student_puts |-> puts + created, res |-> parsed]

\* lines 83-85: course = self.get_course();
\* AnalyticsUpdater().update_student(user, transforms.loads(payload_json))
UpdateStudent ==
    /\ rest_pc = "update"
    /\ LET payload == Loads(request.payload)
           updated == update_student(student_puts,
                                     IF stored_map = "absent" THEN "empty"
                                     ELSE stored_map)
       IN IF payload.exc # NoExc
            THEN /\ rest_pc' = "raised" /\ rest_exc' = payload.exc
                 /\ UNCHANGED <<student_puts, stored_map>>
            ELSE /\ student_puts' = updated.student_puts
                 /\ stored_map' = IF stored_map = "absent" THEN "empty"
                                  ELSE stored_map
                 /\ IF updated.res.exc = NoExc
                      THEN rest_pc' = "respond" /\ UNCHANGED rest_exc
                      ELSE rest_pc' = "raised" /\ rest_exc' = updated.res.exc
    /\ UNCHANGED <<request, can_persist, session_user, events, response,
                   n_requests, rest_before>>
    /\ UNCHANGED <<bus_vars, graph_vars, bkt_vars>>

\* line 87
RespondOK ==
    /\ rest_pc = "respond"
    /\ response' = JsonResponse(200, "OK")
    /\ rest_pc' = "done"
    /\ UNCHANGED <<request, can_persist, session_user, stored_map, events,
                   student_puts, rest_exc, n_requests, rest_before>>
    /\ UNCHANGED <<bus_vars, graph_vars, bkt_vars>>

(* ---- AnalyticsSchoolbusHandler (learning_analytics_schoolbus.py) ---- *)

STUDENT_ACTION_TOPIC == "studentAction"
NEW_SKILL_MAP_ENTRY_TOPIC == "skillmapUpdate"

\* BusMessage(content=..., topicName=...)
BusMessage(content, topicName) == [content |-> content, topicName |-> topicName]

Bool(b) == [type |-> "bool", val |-> b]

\* The dict of the handler's comment (lines 92-99), shortened, and one with
\* some of its keys.
ProblemCheck ==
    [event_type |-> Str("problem_check"), resource_id |-> Str("problem/__61"),
     student_id |-> Str("d4df"), answers |-> Str("choice_3"),
     result |-> Bool(FALSE), course_id |-> Str("NCP-101")]
PartialEvent == [student_id |-> Str("d4df"), result |-> Bool(TRUE)]

\* Contents a bus message can carry: text that is no JSON, JSON objects, and
\* JSON documents that are not objects.
Contents ==
    {"not json", "", "{}", "{problem_check ...}", "{student_id, result}",
     "[1, 2]", "3", "null"}

\* json.loads(text): the Python value of a JSON document, ValueError for
\* other text.
JsonLoads(text) ==
    CASE text = "{}" -> Return([type |-> "dict", val |-> EmptyDict])
      [] text = "{problem_check ...}" ->
           Return([type |-> "dict", val |-> ProblemCheck])
      [] text = "{student_id, result}" ->
           Return([type |-> "dict", val |-> PartialEvent])
      [] text = "[1, 2]" -> Return([type |-> "list", val |-> <<1, 2>>])
      [] text = "3" -> Return([type |-> "int", val |-> 3])
      [] text = "null" -> Return(None)
      [] OTHER -> Raise("ValueError")

\* '%s' % value
FormatS(value) ==
    CASE value = None -> "None"
      [] value.type = "bool" -> IF value.val THEN "True" ELSE "False"
      [] OTHER -> value.text

\* lines 108-115: the six fields, None for a missing one, in the order of
\* the sentence 'Received Lagunita event %s: Student %s in course %s
\* submitted %s for problem %s, which is %s.'
PubContent(payload) ==
    [event_type |-> FormatS(DictGet(payload, "event_type", None)),
     student_id |-> FormatS(DictGet(payload, "student_id", None)),
     course_id |-> FormatS(DictGet(payload, "course_id", None)),
     answers |-> FormatS(DictGet(payload, "answers", None)),
     resource_id |-> FormatS(DictGet(payload, "resource_id", None)),
     result |-> FormatS(DictGet(payload, "result", None))]

\* lines 86-119: only ValueError is caught; payload.get exists on a dict
\* only, so that another JSON value raises AttributeError at line 109.
new_student_info(bus, busMsg) ==
    LET payload == JsonLoads(busMsg.content)
    IN IF payload.exc = "ValueError" THEN [published |-> bus, res |-> Return(None)]
       ELSE IF payload.val.type # "dict"
         THEN [published |-> bus, res |-> Raise("AttributeError")]
       ELSE [published |->
                Append(bus, BusMessage(PubContent(payload.val.val),
                                       NEW_SKILL_MAP_ENTRY_TOPIC)),
             res |-> Return(None)]

\* lines 74-77: the bus calls new_student_info for each message on
\* 'studentAction'; the subscription outlives a call that raised.
Deliver(busMsg) ==
    /\ n_delivered < MaxMessages
    /\ busMsg.topicName = STUDENT_ACTION_TOPIC
    /\ LET call == new_student_info(published, busMsg)
       IN /\ published' = call.published
          /\ bus_ret' = [content |-> busMsg.content, res |-> call.res,
                         delivered |-> TRUE]
    /\ n_delivered' = n_delivered + 1
    /\ n_parseable' = IF JsonLoads(busMsg.content).exc = NoExc
                        THEN n_parseable + 1 ELSE n_parseable
    /\ UNCHANGED <<rest_vars, graph_vars, bkt_vars>>

(* ---- next-state relations ---- *)
SkillsMapFromXml ==
    \/ SkillsFromXmlCall
    \/ \E id_str \in SkillIds : ParseSkill(id_str)
    \/ EndSkills
    \/ \E id_str \in ObjectiveIds, has_description \in BOOLEAN :
          ParseObjective(id_str, has_description)
    \/ \E skill_id \in SkillIds : ParseObjectiveSkill(skill_id)
    \/ EndObjective
    \/ SkillsFromXmlReturn

ResourcesMapFromXml ==
    \/ \E with_skills_map \in BOOLEAN : ResFromXmlCall(with_skills_map)
    \/ \E resource_id \in ResourceIds : ParseResource(resource_id)
    \/ \E skill_id \in SkillIds : ParseResourceSkill(skill_id)
    \/ EndResource
    \/ ResFromXmlReturn

SkillsMapLookups ==
    \/ \E id_str \in LookupArgs(SkillIds) : CallGetSkillById(id_str)
    \/ \E id_str \in LookupArgs(ObjectiveIds) : CallGetObjectiveById(id_str)
    \/ \E id_str \in LookupArgs(ObjectiveIds) : CallGetSkillsForObjective(id_str)
    \/ \E id_str \in LookupArgs(SkillIds) : CallGetObjectivesForSkill(id_str)

ResourcesMapLookups ==
    \/ \E id_str \in LookupArgs(ResourceIds) : CallGetSkillsForResource(id_str)
    \/ \E id_str \in LookupArgs(SkillIds) : CallGetResourcesForSkill(id_str)
    \/ \E id_str \in LookupArgs(ResourceIds) : CallGetObjectivesForResource(id_str)

CallerWrites ==
    \/ SkillsViewAppend
    \/ SkillsViewPop
    \/ ObjectivesViewAppend
    \/ ObjectivesViewPop
    \/ ResourceIdsViewAppend
    \/ ResourceIdsViewPop
    \/ \E objective_id \in ObjectiveIds : ReturnedSetAdd(objective_id)

\* Every operation of the two classes and of their caller.
Next ==
    \/ SkillsMapFromXml
    \/ ResourcesMapFromXml
    \/ SkillsMapLookups
    \/ ResourcesMapLookups
    \/ CallerWrites
    \/ DropResult

Spec == Init /\ [][Next]_vars

\* SkillsMap alone: its factory, its lookups, its caller's writes.
NextSkillsMap ==
    \/ SkillsMapFromXml
    \/ SkillsMapLookups
    \/ SkillsViewAppend
    \/ SkillsViewPop
    \/ ObjectivesViewAppend
    \/ ObjectivesViewPop
    \/ DropResult

SpecSkillsMap == Init /\ [][NextSkillsMap]_vars

\* ResourcesMap over a parsed SkillsMap: both factories and ResourcesMap's lookups.
NextResourcesMap ==
    \/ SkillsMapFromXml
    \/ ResourcesMapFromXml
    \/ ResourcesMapLookups
    \/ DropResult

SpecResourcesMap == Init /\ [][NextResourcesMap]_vars

\* Both classes read only: both factories and every lookup.
NextLookups ==
    \/ SkillsMapFromXml
    \/ ResourcesMapFromXml
    \/ SkillsMapLookups
    \/ ResourcesMapLookups
    \/ DropResult

SpecLookups == Init /\ [][NextLookups]_vars

\* The estimator under any parameters and short sequences of observations.
NextBKT ==
    \/ \E p_learning \in Probabilities, p_guess \in Probabilities,
          p_slip \in Probabilities : NewEstimator(p_learning, p_guess, p_slip)
    \/ GetStandardEstimator
    \/ \E prior \in Priors : StartFrom(prior)
    \/ \E is_correct \in BOOLEAN : Observe(is_correct)

SpecBKT == Init /\ [][NextBKT]_vars

\* The standard estimator under long runs of equal observations.
NextBKTRuns ==
    \/ GetStandardEstimator
    \/ \E prior \in Priors : StartFrom(prior)
    \/ \E is_correct \in BOOLEAN : ObserveAgain(is_correct)

SpecBKTRuns == Init /\ [][NextBKTRuns]_vars

\* AnalyticsEventRestHandler.post under the requests of its clients.
NextRest ==
    \/ \E req \in Requests, flag \in BOOLEAN,
          user \in {None, User("user@foo.bar")}, map \in StoredMaps :
            Post(req, flag, user, map)
    \/ CheckXsrf
    \/ CheckCanPersist
    \/ CheckUser
    \/ RecordEvent
    \/ UpdateStudent
    \/ RespondOK

SpecRest == Init /\ [][NextRest]_vars

\* AnalyticsSchoolbusHandler under the messages of the bus.
NextBus ==
    \E content \in Contents : Deliver(BusMessage(content, STUDENT_ACTION_TOPIC))

SpecBus == Init /\ [][NextBus]_vars

(* ======================= properties ======================= *)

\* The ids a sequence of the document declares.
Declared(seq) == {seq[i] : i \in 1..Len(seq)}
IdsOf(objects) == [i \in 1..Len(objects) |-> objects[i].id]
SkillKeys == SkillIds \cup {BadKey}
ObjectiveKeys == ObjectiveIds \cup {BadKey}
ResourceKeys == ResourceIds \cup {BadKey}

\* C1: in every SkillsMap that from_xml returned, objective o is in
\* get_objectives_for_skill(s) exactly when skill s is in
\* get_skills_for_objective(o), for every skill id and objective id.
C1_SkillGraphInverse ==
    skills_pc = "built" =>
      \A s \in SkillKeys \cup DOMAIN skills_map.skills_to_objectives_map,
         o \in ObjectiveKeys \cup DOMAIN skills_map.objectives_to_skills_map :
           (o \in get_objectives_for_skill(skills_map, s).val)
             <=> (s \in get_skills_for_objective(skills_map, o).val)

C1_Witness ==
    /\ skills_pc = "built"
    /\ get_objectives_for_skill(skills_map, "s1").val = {"o1", "o2"}
    /\ get_skills_for_objective(skills_map, "o1").val = {"s1", "s2"}

\* C2: in every ResourcesMap that from_xml returned (with or without a
\* SkillsMap), skill s is in get_skills_for_resource(r) exactly when resource
\* r is in get_resources_for_skill(s), for every resource id and skill id.
C2_ResourceGraphInverse ==
    res_pc = "built" =>
      \A r \in ResourceKeys \cup DOMAIN resources_map.resources_to_skills_map,
         s \in SkillKeys \cup DOMAIN resources_map.skills_to_resources_map :
           (s \in get_skills_for_resource(resources_map, r).val)
             <=> (r \in get_resources_for_skill(resources_map, s).val)

C2_Witness ==
    /\ res_pc = "built"
    /\ get_skills_for_resource(resources_map, "r1").val = {"s1", "s2"}
    /\ get_resources_for_skill(resources_map, "s1").val = {"r1"}

\* C3: ResourcesMap.from_xml raises exactly when a SkillsMap was supplied and
\* the document referenced a skill id for which its get_skill_by_id returns
\* None (so without a SkillsMap it never raises), and in a ResourcesMap built
\* with a SkillsMap every skill id of either adjacency mapping is in that
\* SkillsMap's lookup.
C3_RejectsAbsentSkillIffSupplied ==
    /\ (res_pc = "raised") <=> (doc.with_skills_map /\ doc.absent_ref)
    /\ (res_pc = "built" /\ resources_map.skills_map # None) =>
         /\ \A s \in DOMAIN resources_map.skills_to_resources_map :
               get_skill_by_id(skills_map, s).val # None
         /\ \A r \in DOMAIN resources_map.resources_to_skills_map :
               \A s \in resources_map.resources_to_skills_map[r] :
                  get_skill_by_id(skills_map, s).val # None

C3_Witness ==
    /\ res_pc = "raised" /\ res_exc = "AssertionError"
    /\ doc.with_skills_map /\ doc.absent_ref

\* The same document without a SkillsMap: parsed to the end.
C3_AcceptedWithoutSkillsMap ==
    res_pc = "built" /\ ~doc.with_skills_map /\ doc.absent_ref

\* Every key of the two adjacency mappings of a built SkillsMap is in its lookups.
C4_KeysAreDeclared ==
    skills_pc = "built" =>
      /\ \A s \in DOMAIN skills_map.skills_to_objectives_map :
            get_skill_by_id(skills_map, s).val # None
      /\ \A o \in DOMAIN skills_map.objectives_to_skills_map :
            get_objective_by_id(skills_map, o).val # None

\* C4: SkillsMap.from_xml raises exactly when an objective's skill list
\* referenced a skill id the skills section did not declare, and otherwise
\* succeeds; in a built SkillsMap every key of the skill-to-objectives mapping
\* is in the skill lookup and every key of the objective-to-skills mapping is
\* in the objective lookup.
C4_RaisesIffUndeclaredRef ==
    /\ (skills_pc = "raised") <=> doc.undeclared_ref
    /\ C4_KeysAreDeclared

\* What holds of the code: an undeclared reference always raises.
C4_UndeclaredRefRaises ==
    /\ doc.undeclared_ref => (skills_pc = "raised" /\ skills_exc = "AssertionError")
    /\ (skills_pc = "raised") <=> (doc.undeclared_ref \/ doc.no_description)
    /\ C4_KeysAreDeclared

\* C5: on a ResourcesMap built with a SkillsMap, what
\* get_objectives_for_resource(r) returns is the union, over the skills s of
\* get_skills_for_resource(r), of get_objectives_for_skill(s); it is empty for
\* an unknown r and when no skill of r belongs to an objective.
C5_ObjectivesAreUnionOverSkills ==
    (ret.op = "get_objectives_for_resource" /\ ret.res.exc = NoExc) =>
      LET skills == get_skills_for_resource(resources_map, ret.arg).val
      IN /\ ret.res.val =
              UNION {get_objectives_for_skill(skills_map, s).val : s \in skills}
         /\ ret.arg \notin Declared(doc.resources) => ret.res.val = {}
         /\ (\A s \in skills : \A o \in ObjectiveIds :
                <<o, s>> \notin doc.objective_refs) => ret.res.val = {}

C5_Witness ==
    /\ ret.op = "get_objectives_for_resource" /\ ret.res.exc = NoExc
    /\ ret.res.val = {"o1", "o2"}
    /\ get_objectives_for_skill(skills_map, "s1").val = {"o1"}
    /\ get_objectives_for_skill(skills_map, "s2").val = {"o2"}

\* C6: get_objectives_for_resource raises AssertionError for every argument
\* on a ResourcesMap built without a SkillsMap, and never on one built with a
\* SkillsMap, an empty one included.
C6_AssertsSkillsMapPresent ==
    ret.op = "get_objectives_for_resource" =>
      IF resources_map.skills_map = None
        THEN ret.res.exc = "AssertionError"
        ELSE ret.res.exc = NoExc

C6_Witness ==
    /\ ret.op = "get_objectives_for_resource" /\ ret.arg = BadKey
    /\ resources_map.skills_map = None
    /\ ret.res.exc = "AssertionError"

\* The call on a ResourcesMap built with an empty SkillsMap returns.
C6_EmptySkillsMapAccepted ==
    /\ ret.op = "get_objectives_for_resource" /\ ret.res.exc = NoExc
    /\ skills_map.skills = <<>> /\ skills_map.objectives = <<>>

\* C7: no lookup raises; get_skill_by_id and get_objective_by_id return None
\* for an id the document did not declare, and the four set lookups return
\* the empty set for an id with no reference in the document (an unknown id,
\* an objective with no listed skill, a skill no objective lists, a resource
\* with no skill).
C7_MissesReturnNoneOrEmpty ==
    /\ ret.op \notin {"none", "get_objectives_for_resource"} => ret.res.exc = NoExc
    /\ (ret.op = "get_skill_by_id" /\ ret.arg \notin Declared(doc.skills))
          => ret.res.val = None
    /\ (ret.op = "get_objective_by_id" /\ ret.arg \notin Declared(doc.objectives))
          => ret.res.val = None
    /\ (ret.op = "get_skills_for_objective"
          /\ \A s \in SkillIds : <<ret.arg, s>> \notin doc.objective_refs)
          => ret.res.val = {}
    /\ (ret.op = "get_objectives_for_skill"
          /\ \A o \in ObjectiveIds : <<o, ret.arg>> \notin doc.objective_refs)
          => ret.res.val = {}
    /\ (ret.op = "get_skills_for_resource"
          /\ \A s \in SkillIds : <<ret.arg, s>> \notin doc.resource_refs)
          => ret.res.val = {}
    /\ (ret.op = "get_resources_for_skill"
          /\ \A r \in ResourceIds : <<r, ret.arg>> \notin doc.resource_refs)
          => ret.res.val = {}

C7_Witness ==
    /\ ret.op = "get_skills_for_objective"
    /\ ret.arg \in Declared(doc.objectives)
    /\ \A s \in SkillIds : <<ret.arg, s>> \notin doc.objective_refs
    /\ ret.res.exc = NoExc /\ ret.res.val = {}

\* C8: once from_xml has returned a graph, no operation of the caller changes
\* it: the SkillsMap and the ResourcesMap stay what from_xml returned.
C8_BuiltGraphsImmutable ==
    [][/\ skills_pc = "built" => skills_map' = skills_map
       /\ res_pc = "built" => resources_map' = resources_map]_vars

\* The graph holds everything the document declared.
SkillsMapIsWhole ==
    /\ IdsOf(skills_map.skills) = doc.skills
    /\ IdsOf(skills_map.objectives) = doc.objectives
    /\ DOMAIN skills_map.skills_by_id = Declared(doc.skills)
    /\ DOMAIN skills_map.objectives_by_id = Declared(doc.objectives)
    /\ \A o \in ObjectiveIds, s \in SkillIds :
          (s \in get_skills_for_objective(skills_map, o).val)
             <=> (<<o, s>> \in doc.objective_refs)

ResourcesMapIsWhole ==
    /\ resources_map.resource_ids = doc.resources
    /\ \A r \in ResourceIds, s \in SkillIds :
          (s \in get_skills_for_resource(resources_map, r).val)
             <=> (<<r, s>> \in doc.resource_refs)

C9_NoPartialGraph ==
    /\ IF skills_pc = "built" THEN SkillsMapIsWhole ELSE skills_map = None
    /\ IF res_pc = "built" THEN ResourcesMapIsWhole ELSE resources_map = None

\* C9: from_xml binds the caller's name only by returning, to a graph that
\* holds everything the document declared; after a raise the caller holds no
\* graph; and no step of ResourcesMap.from_xml changes the SkillsMap.
C9_ConstructionIsAtomic ==
    [][/\ C9_NoPartialGraph'
       /\ (res_pc \in {"resources", "refs"} \/ res_pc' = "resources")
             => skills_map' = skills_map]_vars

C9_Witness ==
    /\ res_pc = "raised" /\ resources_map = None
    /\ Cardinality(doc.resource_refs) = 2
    /\ skills_pc = "built" /\ Len(skills_map.skills) = 1

\* C10: in a SkillsMap that from_xml returned, no two entries of skills and
\* no two entries of objectives have the same id, and get_skill_by_id and
\* get_objective_by_id of an entry's id return that entry.
C10_IdsAreUnique ==
    (skills_pc = "built" /\ caller_writes = 0) =>
      /\ \A i, j \in 1..Len(skills_map.skills) :
            skills_map.skills[i].id = skills_map.skills[j].id => i = j
      /\ \A i, j \in 1..Len(skills_map.objectives) :
            skills_map.objectives[i].id = skills_map.objectives[j].id => i = j
      /\ \A i \in 1..Len(skills_map.skills) :
            get_skill_by_id(skills_map, skills_map.skills[i].id).val
               = skills_map.skills[i]
      /\ \A i \in 1..Len(skills_map.objectives) :
            get_objective_by_id(skills_map, skills_map.objectives[i].id).val
               = skills_map.objectives[i]

C12_MissingDescriptionParses ==
    doc.no_description =>
      /\ skills_exc = NoExc
      /\ skills_pc = "built" =>
            \A i \in 1..Len(doc.objectives) :
               get_objective_by_id(skills_map, doc.objectives[i]).val # None

\* The ratio of the latest get_posterior call is zero over zero.
ZeroOverZero ==
    LET ratio == IF bkt_ret.is_correct
                   THEN CorrectEvidence(estimator, bkt_ret.prior)
                   ELSE IncorrectEvidence(estimator, bkt_ret.prior)
    IN ratio.num = FloatZero /\ ratio.den = FloatZero

\* C13: a get_posterior call whose ratio is zero over zero (a prior of 0 or 1
\* with guess or slip of 0 or 1, as prior 0, guess 0 and a correct answer)
\* returns the prior it was given and raises nothing.
C13_ZeroOverZeroReturnsPrior ==
    (bkt_ret # NoObservation /\ ZeroOverZero) =>
       bkt_ret.res = Return(bkt_ret.prior)

\* The latest get_posterior call was given a correct / an incorrect answer.
ObservedCorrect == bkt_ret # NoObservation /\ bkt_ret.is_correct
ObservedIncorrect == bkt_ret # NoObservation /\ ~bkt_ret.is_correct

\* 0 < x < 1
InOpenUnit(x) == FloatLess(FloatZero, x) /\ FloatLess(x, FloatOne)

\* As the claim has it: with slip = 0 and a prior in (0, 1), a correct answer
\* gives the posterior 1.0, whatever guess is.
C14_NoSlipCorrectIsCertain ==
    (/\ ObservedCorrect
     /\ estimator.p_slip = FloatZero
     /\ InOpenUnit(bkt_ret.prior)) => bkt_ret.res = Return(FloatOne)

\* C14: with slip = 0 and a prior in (0, 1), get_posterior after a correct
\* answer returns 1.0 when guessing is impossible (guess = 0) or learning is
\* certain (learning = 1).
C14_NoSlipNoGuessCorrectIsCertain ==
    (/\ ObservedCorrect
     /\ estimator.p_slip = FloatZero
     /\ estimator.p_guess = FloatZero \/ estimator.p_learning = FloatOne
     /\ InOpenUnit(bkt_ret.prior)) => bkt_ret.res = Return(FloatOne)

C14_Witness ==
    /\ ObservedCorrect
    /\ estimator = BKTEstimator(Decimal(1, 10), FloatZero, FloatZero)
    /\ bkt_ret.prior = Decimal(50, 100)
    /\ bkt_ret.res = Return(FloatOne)

\* C15: with guess = 0 and slip < 1, for every prior in (0, 1) and every
\* learning rate, get_posterior after a correct answer returns exactly 1.0.
C15_NoGuessCorrectIsCertain ==
    (/\ ObservedCorrect
     /\ estimator.p_guess = FloatZero
     /\ FloatLess(estimator.p_slip, FloatOne)
     /\ InOpenUnit(bkt_ret.prior)) => bkt_ret.res = Return(FloatOne)

C15_Witness ==
    /\ ObservedCorrect
    /\ estimator = BKTEstimator(Decimal(1, 10), FloatZero, Decimal(2, 10))
    /\ bkt_ret.prior = Decimal(99, 100)
    /\ bkt_ret.res = Return(FloatOne)

\* C16: with slip = 0 and guess < 1, for every prior in (0, 1),
\* get_posterior after an incorrect answer returns exactly p_learning.
C16_NoSlipIncorrectIsLearning ==
    (/\ ObservedIncorrect
     /\ estimator.p_slip = FloatZero
     /\ FloatLess(estimator.p_guess, FloatOne)
     /\ InOpenUnit(bkt_ret.prior)) => bkt_ret.res = Return(estimator.p_learning)

C16_Witness ==
    /\ ObservedIncorrect
    /\ estimator = BKTEstimator(Decimal(1, 10), Decimal(3, 10), FloatZero)
    /\ bkt_ret.prior = Decimal(50, 100)
    /\ bkt_ret.res = Return(Decimal(1, 10))

OnlyIncorrect == n_correct = 0
OnlyCorrect == n_correct = n_obs

\* C18: with the standard estimator, get_posterior(0.14, False) is 0.14; for
\* a prior in (0.14, 1) an incorrect answer gives a posterior strictly below
\* the prior and not below 0.14; and a run of RunLength incorrect answers
\* from a prior in [0.14, 1) ends at 0.14.
C18_IncorrectRunsSettleAtFixedPoint ==
    LET fixed == Decimal(14, 100)
    IN estimator = get_standard_estimator =>
         /\ (ObservedIncorrect /\ bkt_ret.prior = fixed) =>
                bkt_ret.res = Return(fixed)
         /\ (/\ ObservedIncorrect
             /\ FloatLess(fixed, bkt_ret.prior)
             /\ FloatLess(bkt_ret.prior, FloatOne)) =>
                /\ bkt_ret.res.exc = NoExc
                /\ FloatLess(bkt_ret.res.val, bkt_ret.prior)
                /\ FloatLeq(fixed, bkt_ret.res.val)
         /\ (/\ n_obs = RunLength /\ OnlyIncorrect
             /\ FloatLeq(fixed, start_prior)
             /\ FloatLess(start_prior, FloatOne)) => mastery = fixed

C18_Witness ==
    /\ estimator = get_standard_estimator
    /\ n_obs = RunLength /\ OnlyIncorrect
    /\ start_prior = Decimal(9999, 10000)
    /\ bkt_ret.prior = Decimal(14, 100)
    /\ mastery = Decimal(14, 100)

\* C19: with the standard estimator, RunLength correct answers in a row from
\* the prior 0.0, each posterior being the next prior, end at exactly 1.0.
C19_CorrectRunReachesOne ==
    (/\ estimator = get_standard_estimator
     /\ start_prior = FloatZero
     /\ n_obs = RunLength /\ OnlyCorrect) => mastery = FloatOne

C19_Witness ==
    /\ estimator = get_standard_estimator
    /\ start_prior = FloatZero
    /\ n_obs = RunLength /\ OnlyCorrect
    /\ bkt_ret.res = Return(FloatOne)

\* The ratio p of the latest get_posterior call, which line 77 subtracts from 1.
EvidenceRatio ==
    LET ratio == IF bkt_ret.is_correct
                   THEN CorrectEvidence(estimator, bkt_ret.prior)
                   ELSE IncorrectEvidence(estimator, bkt_ret.prior)
    IN FloatDiv(ratio.num, ratio.den)

\* C20: for learning, guess and slip in [0, 1] and a prior in [0, 1], a
\* value that get_posterior returns is at least p_learning (so at least 0)
\* and at most 1, as is the ratio it is computed from; so the caller's
\* estimate, each posterior being the next prior, stays in [0, 1] under
\* every sequence of observations.
C20_PosteriorIsProbability ==
    /\ (bkt_ret # NoObservation /\ bkt_ret.res.exc = NoExc) =>
          /\ FloatLeq(EvidenceRatio, FloatOne)
          /\ FloatLeq(estimator.p_learning, bkt_ret.res.val)
          /\ FloatLeq(FloatZero, bkt_ret.res.val)
          /\ FloatLeq(bkt_ret.res.val, FloatOne)
    /\ mastery # None =>
          FloatLeq(FloatZero, mastery) /\ FloatLeq(mastery, FloatOne)

C20_Witness ==
    /\ n_obs = MaxObservations
    /\ n_correct = 1 /\ ~bkt_ret.is_correct
    /\ estimator = BKTEstimator(Decimal(2, 10), Decimal(3, 10), Decimal(1, 10))
    /\ start_prior = Decimal(9999, 10000)
    /\ bkt_ret.res.exc = NoExc
    /\ FloatLess(bkt_ret.res.val, bkt_ret.prior)

(* ---- the REST handler's checks ---- *)

\* The three checks of post, as the request, the configuration and the
\* session decide them.
TokenValid == request.xsrf_token = ValidToken
AllChecksPass == TokenValid /\ can_persist /\ session_user # None

\* What the request in hand has added so far.
NewEvents == Len(events) - rest_before.events
StudentUpdated == student_puts # rest_before.student_puts
Answered(status, message) == response = JsonResponse(status, message)
Untouched == NewEvents = 0 /\ ~StudentUpdated

\* What holds of a request whose body was parsed, at every step of post.
ChecksInOrder ==
    (request # None /\ request.body_is_json) =>
        /\ (rest_pc = "done" /\ ~TokenValid) =>
              Answered(403, "Bad XSRF token")
        /\ (rest_pc = "done" /\ TokenValid /\ ~can_persist) =>
              Answered(200, "NO-OP")
        /\ (rest_pc = "done" /\ TokenValid /\ can_persist /\ session_user = None) =>
              Answered(403, "User not found")
        /\ ~AllChecksPass => (Untouched /\ rest_pc # "raised")
        /\ NewEvents \in {0, 1}
        /\ NewEvents = 1 =>
              /\ AllChecksPass
              /\ events[Len(events)].source = "learning-analytics-event"
              /\ events[Len(events)].user_id = session_user.user_id
              /\ events[Len(events)].data = request.payload
        /\ (AllChecksPass /\ rest_pc \in {"done", "raised"}) => NewEvents = 1
        /\ (AllChecksPass /\ rest_pc = "done") => Answered(200, "OK")
        /\ (StudentUpdated \/ Answered(200, "OK")) => NewEvents = 1

\* The student update and the responses leave the recorded events alone, and
\* the student is updated before the handler answers.
EventComesFirst ==
    /\ student_puts' # student_puts =>
          (NewEvents = 1 /\ events' = events /\ response = None)
    /\ (response' # response /\ response' # None) => events' = events

\* C21: post applies its checks in a fixed order: a bad XSRF token is
\* answered 403 'Bad XSRF token', else a false CAN_PERSIST_TAG_EVENTS 200
\* 'NO-OP', else a missing user 403 'User not found', and in these three
\* cases no event is recorded and no student property is put. Only when all
\* three pass is exactly one event recorded, with source
\* 'learning-analytics-event', the user and the payload as posted, and it is
\* recorded before the student is updated and before 200 'OK' is answered.
C21_ChecksInOrderThenOneEvent == []ChecksInOrder /\ [][EventComesFirst]_vars

\* A second request of a logged-in user is answered 'OK' with its event
\* recorded after the first one's.
C21_Witness ==
    /\ rest_pc = "done" /\ AllChecksPass /\ Answered(200, "OK")
    /\ Len(events) = 2 /\ NewEvents = 1 /\ StudentUpdated

(* ---- the bus handler ---- *)

\* C22: for every message delivered to new_student_info, content that is
\* not JSON publishes nothing and content that is JSON publishes exactly one
\* message on 'skillmapUpdate'; either way the handler returns normally, so
\* that the number of published messages is the number of delivered messages
\* with JSON content, and the handler never raises.
C22_PublishesOncePerParseableMessage ==
    /\ bus_ret.res.exc = NoExc
    /\ Len(published) = n_parseable
    /\ \A i \in 1..Len(published) :
          published[i].topicName = "skillmapUpdate"

====
